---- MODULE Spec2Model ----
(***************************************************************************)
(* Model of src/config.rs (stm32f303re_blink): the configuration constants *)
(* and Hardware::init, which consumes the embassy_stm32 Peripherals token, *)
(* creates the USART2 transmitter on PA2, configures PA5 as the LED output *)
(* and packages both handles into the Hardware struct.                     *)
(***************************************************************************)
EXTENDS Integers, Sequences, FiniteSets, TLC

\* ------------------------------------------------------------------ bounds
\* Number of GPIO pins, besides PA2 and PA5, that the token carries
\* in the model (the real token carries every on-chip peripheral).
NumOtherPins == 2

\* --------------------------------------------------------------- constants
\* pub const LED_BLINK_INTERVAL_MS: u64 = 500;
LED_BLINK_INTERVAL_MS_doubled == 2 * 500
LED_BLINK_INTERVAL_MS == 500

\* A Rust byte-string literal is a sequence of source characters; the escapes
\* \r and \n each denote one byte.  ByteOf gives the byte of one source token.
ByteOf(tok) ==
    CASE tok = "L"   -> 76
      [] tok = "E"   -> 69
      [] tok = "D"   -> 68
      [] tok = " "   -> 32
      [] tok = "O"   -> 79
      [] tok = "N"   -> 78
      [] tok = "F"   -> 70
      [] tok = "\\r" -> 13
      [] tok = "\\n" -> 10

ByteString(lit) == [i \in 1..Len(lit) |-> ByteOf(lit[i])]

\* pub const LED_ON: &[u8] = b"LED ON\r\n";
LED_ON_lf_only == ByteString(<<"L", "E", "D", " ", "O", "N", "\\n">>)
LED_ON == ByteString(<<"L", "E", "D", " ", "O", "N", "\\r", "\\n">>)

\* pub const LED_OFF: &[u8] = b"LED OFF\r\n";
LED_OFF == ByteString(<<"L", "E", "D", " ", "O", "F", "F", "\\r", "\\n">>)

\* ------------------------------------------------------------- peripherals
OtherPinNames == <<"PA0", "PA1", "PA3", "PA4", "PA6", "PA7">>
OtherPins == {OtherPinNames[i] : i \in 1..NumOtherPins}

\* The pins and the serial blocks init names.
TxPin == "PA2"
LedPin_wrong == OtherPinNames[1]
LedPin == "PA5"
UsartPeri == "USART2"

Pins == {TxPin, "PA5"} \cup OtherPins
Usarts == {UsartPeri, "USART1"}
\* Everything the Peripherals token owns.
Peripherals == Pins \cup Usarts
\* What init is documented to touch.
InitPeripherals == {UsartPeri, TxPin, "PA5"}

\* Hardware state of one GPIO line (MODER / ODR / OSPEEDR).
PinReset == [mode |-> "Input", level |-> "Low", speed |-> "Low"]
PinStates == [mode : {"Input", "Output", "AltFn"}, level : {"Low", "High"},
              speed : {"Low", "High"}]
\* States a line can be in when init is entered: the reset state, or
\* whatever code that ran before main (a boot loader) left behind.
PinPreStates == {PinReset, [mode |-> "Output", level |-> "High", speed |-> "High"]}

\* usart::Config values (baudrate, data_bits, parity, stop_bits).
Config8N1 == [baudrate |-> 115200, data_bits |-> 8, parity |-> "ParityNone",
              stop_bits |-> "STOP1"]
\* Values embassy_stm32::usart::Config::default() may have in the framework
\* the crate is built against; the comment at line 79 documents Config8N1.
FrameworkDefaults ==
    {Config8N1,
     [Config8N1 EXCEPT !.baudrate = 9600],
     [Config8N1 EXCEPT !.parity = "ParityEven"]}

\* Hardware state of one USART block: disabled, or enabled with at most one
\* programmed configuration.
UsartReset == [enabled |-> FALSE, config |-> {}]

VARIABLES
    rodata,            \* the crate's const items, as the running image holds them
    framework_default, \* what usart::Config::default() returns
    pin_hw,            \* GPIO registers, per pin
    usart_hw,          \* USART registers, per block
    pre_pin_hw,        \* pin_hw at process start (history)
    pre_usart_hw,      \* usart_hw at process start (history)
    token_taken,       \* the framework has issued its Peripherals token
    caller_token,      \* peripherals of the token held by the caller
    p,                 \* init's parameter p: the fields not yet moved out
    pc,                \* position of the process
    uart_config,       \* init's local uart_config (none or one Config)
    uart_result,       \* outcome of UartTx::new: "none", "ok", "err"
    usart,             \* init's local usart (none or one UartTx)
    led,               \* init's local led (none or one Output)
    bundles            \* the Hardware values that exist in the process

vars == <<rodata, framework_default, pin_hw, usart_hw, pre_pin_hw, pre_usart_hw,
          token_taken, caller_token, p, pc, uart_config, uart_result,
          usart, led, bundles>>

\* ------------------------------------------------------------ Hardware::init
\* The statements of init, in program order (lines 80, 81, 85, 88).
StepOrder_led_first == <<"uart_config", "led_new", "uart_new", "pack">>
StepOrder == <<"uart_config", "uart_new", "led_new", "pack">>

StepIndex(s) == CHOOSE i \in 1..Len(StepOrder) : StepOrder[i] = s
StepAfter(s) ==
    IF StepIndex(s) < Len(StepOrder) THEN StepOrder[StepIndex(s) + 1]
    ELSE "returned"

InitSteps == {StepOrder[i] : i \in 1..Len(StepOrder)}
Terminal == {"returned", "panicked"}

\* Level::Low and Speed::Low, the arguments of Output::new at line 85.
LedInitialLevel_high == "High"
LedInitialLevel == "Low"
LedSpeed == "Low"
\* embassy_stm32::dma::NoDma, the tx_dma argument at line 81.
TxDma == "NoDma"

\* Output::new(pin, level, speed): programs the line as an output.
Output_new(hw, pin, level, speed) ==
    [hw EXCEPT ![pin] = [mode |-> "Output", level |-> level, speed |-> speed]]

Init ==
    /\ rodata = [LED_BLINK_INTERVAL_MS |-> LED_BLINK_INTERVAL_MS,
                 LED_ON |-> LED_ON, LED_OFF |-> LED_OFF]
    /\ framework_default \in FrameworkDefaults
    /\ pin_hw \in [Pins -> PinPreStates]
    /\ usart_hw = [u \in Usarts |-> UsartReset]
    /\ pre_pin_hw = pin_hw
    /\ pre_usart_hw = usart_hw
    /\ token_taken = FALSE
    /\ caller_token = {}
    /\ p = {}
    /\ pc = "boot"
    /\ uart_config = {}
    /\ uart_result = "none"
    /\ usart = {}
    /\ led = {}
    /\ bundles = <<>>

\* The framework issues the Peripherals token, once, to the caller.
IssueToken ==
    /\ pc = "boot"
    /\ ~token_taken
    /\ token_taken' = TRUE
    /\ caller_token' = Peripherals
    /\ pc' = "main"
    /\ UNCHANGED <<rodata, framework_default, pin_hw, usart_hw, pre_pin_hw,
                   pre_usart_hw, p, uart_config, uart_result, usart, led,
                   bundles>>

\* pub fn init(p: Peripherals) -> Self: the caller moves its token into p.
CallInit_borrowing ==
    /\ pc \in {"main", "returned"}
    /\ caller_token = Peripherals
    /\ p' = caller_token
    /\ caller_token' = caller_token
    /\ pc' = StepOrder[1]
    /\ uart_config' = {}
    /\ uart_result' = "none"
    /\ usart' = {}
    /\ led' = {}
    /\ UNCHANGED <<rodata, framework_default, pin_hw, usart_hw, pre_pin_hw,
                   pre_usart_hw, token_taken, bundles>>

CallInit ==
    /\ pc \in {"main", "returned"}
    /\ caller_token = Peripherals
    /\ p' = caller_token
    /\ caller_token' = {}
    /\ pc' = StepOrder[1]
    /\ uart_config' = {}
    /\ uart_result' = "none"
    /\ usart' = {}
    /\ led' = {}
    /\ UNCHANGED <<rodata, framework_default, pin_hw, usart_hw, pre_pin_hw,
                   pre_usart_hw, token_taken, bundles>>

\* let uart_config = embassy_stm32::usart::Config::default();
UartConfigDefault_9600 ==
    /\ pc = "uart_config"
    /\ uart_config' = {[framework_default EXCEPT !.baudrate = 9600]}
    /\ pc' = StepAfter("uart_config")
    /\ UNCHANGED <<rodata, framework_default, pin_hw, usart_hw, pre_pin_hw,
                   pre_usart_hw, token_taken, caller_token, p, uart_result,
                   usart, led, bundles>>

UartConfigDefault ==
    /\ pc = "uart_config"
    /\ uart_config' = {framework_default}
    /\ pc' = StepAfter("uart_config")
    /\ UNCHANGED <<rodata, framework_default, pin_hw, usart_hw, pre_pin_hw,
                   pre_usart_hw, token_taken, caller_token, p, uart_result,
                   usart, led, bundles>>

\* UartTx::new(p.USART2, p.PA2, NoDma, uart_config) returns Ok: USART2 and
\* PA2 are moved out of p, PA2 becomes the alternate-function TX line and
\* USART2 is enabled with the requested configuration.
UartTxNewOk ==
    /\ pc = "uart_new"
    /\ {UsartPeri, TxPin} \subseteq p
    /\ \E cfg \in uart_config :
          /\ usart' = {[peri |-> UsartPeri, tx |-> TxPin, dma |-> TxDma,
                        config |-> cfg]}
          /\ usart_hw' = [usart_hw EXCEPT
                            ![UsartPeri] = [enabled |-> TRUE, config |-> {cfg}]]
    /\ pin_hw' = [pin_hw EXCEPT ![TxPin].mode = "AltFn"]
    /\ p' = p \ {UsartPeri, TxPin}
    /\ uart_result' = "ok"
    /\ pc' = StepAfter("uart_new")
    /\ UNCHANGED <<rodata, framework_default, pre_pin_hw, pre_usart_hw, token_taken,
                   caller_token, uart_config, led, bundles>>

\* UartTx::new(...) returns Err and .unwrap() panics.  How far the framework
\* got in programming USART2 and PA2 before it rejected the request is not
\* fixed by this crate: either nothing, or the pin and the block's enable.
UartTxNewErr_ignored ==
    /\ pc = "uart_new"
    /\ {UsartPeri, TxPin} \subseteq p
    /\ uart_config # {}
    /\ \E touched \in BOOLEAN :
          /\ pin_hw' = IF touched THEN [pin_hw EXCEPT ![TxPin].mode = "AltFn"]
                       ELSE pin_hw
          /\ usart_hw' = IF touched
                         THEN [usart_hw EXCEPT ![UsartPeri].enabled = TRUE]
                         ELSE usart_hw
    /\ p' = p \ {UsartPeri, TxPin}
    /\ uart_result' = "err"
    /\ pc' = StepAfter("uart_new")
    /\ UNCHANGED <<rodata, framework_default, pre_pin_hw, pre_usart_hw, token_taken,
                   caller_token, uart_config, usart, led, bundles>>

UartTxNewErr ==
    /\ pc = "uart_new"
    /\ {UsartPeri, TxPin} \subseteq p
    /\ uart_config # {}
    /\ \E touched \in BOOLEAN :
          /\ pin_hw' = IF touched THEN [pin_hw EXCEPT ![TxPin].mode = "AltFn"]
                       ELSE pin_hw
          /\ usart_hw' = IF touched
                         THEN [usart_hw EXCEPT ![UsartPeri].enabled = TRUE]
                         ELSE usart_hw
    /\ p' = p \ {UsartPeri, TxPin}
    /\ uart_result' = "err"
    /\ pc' = "panicked"
    /\ UNCHANGED <<rodata, framework_default, pre_pin_hw, pre_usart_hw, token_taken,
                   caller_token, uart_config, usart, led, bundles>>

\* let led = Output::new(p.PA5, Level::Low, Speed::Low);
OutputNew_fallible ==
    /\ pc = "led_new"
    /\ LedPin \in p
    /\ \/ /\ pin_hw' = Output_new(pin_hw, LedPin, LedInitialLevel, LedSpeed)
          /\ led' = {[pin |-> LedPin]}
          /\ p' = p \ {LedPin}
          /\ pc' = StepAfter("led_new")
       \/ /\ pc' = "panicked"
          /\ UNCHANGED <<pin_hw, led, p>>
    /\ UNCHANGED <<rodata, framework_default, usart_hw, pre_pin_hw, pre_usart_hw,
                   token_taken, caller_token, uart_config, uart_result, usart,
                   bundles>>

OutputNew ==
    /\ pc = "led_new"
    /\ LedPin \in p
    /\ pin_hw' = Output_new(pin_hw, LedPin, LedInitialLevel, LedSpeed)
    /\ led' = {[pin |-> LedPin]}
    /\ p' = p \ {LedPin}
    /\ pc' = StepAfter("led_new")
    /\ UNCHANGED <<rodata, framework_default, usart_hw, pre_pin_hw, pre_usart_hw,
                   token_taken, caller_token, uart_config, uart_result, usart,
                   bundles>>

\* Self { led, usart }: both locals move into the new Hardware value, init
\* returns it, and what is left of p is dropped.
Pack_unconfigured ==
    /\ pc \in InitSteps
    /\ bundles' = Append(bundles, [led |-> led, usart |-> usart])
    /\ led' = {}
    /\ usart' = {}
    /\ uart_config' = {}
    /\ p' = {}
    /\ pc' = "returned"
    /\ UNCHANGED <<rodata, framework_default, pin_hw, usart_hw, pre_pin_hw,
                   pre_usart_hw, token_taken, caller_token, uart_result>>

Pack ==
    /\ pc = "pack"
    /\ bundles' = Append(bundles, [led |-> led, usart |-> usart])
    /\ led' = {}
    /\ usart' = {}
    /\ uart_config' = {}
    /\ p' = {}
    /\ pc' = "returned"
    /\ UNCHANGED <<rodata, framework_default, pin_hw, usart_hw, pre_pin_hw,
                   pre_usart_hw, token_taken, caller_token, uart_result>>

InitBody == UartConfigDefault \/ UartTxNewOk \/ UartTxNewErr \/ OutputNew \/ Pack

Next ==
    \/ IssueToken
    \/ CallInit
    \/ UartConfigDefault
    \/ UartTxNewOk
    \/ UartTxNewErr
    \/ OutputNew
    \/ Pack

Spec == Init /\ [][Next]_vars

\* init is one synchronous call: once entered, its next statement runs.
FairSpec == Spec /\ WF_vars(InitBody)

\* ------------------------------------------------------------------- types
TypeOK ==
    /\ rodata.LED_BLINK_INTERVAL_MS \in Nat
    /\ rodata.LED_ON \in Seq(0..255)
    /\ rodata.LED_OFF \in Seq(0..255)
    /\ framework_default \in FrameworkDefaults
    /\ pin_hw \in [Pins -> PinStates]
    /\ usart_hw \in [Usarts -> [enabled : BOOLEAN,
                                config : {{}} \cup {{c} : c \in FrameworkDefaults}]]
    /\ token_taken \in BOOLEAN
    /\ caller_token \in {{}, Peripherals}
    /\ p \subseteq Peripherals
    /\ pc \in {"boot", "main"} \cup InitSteps \cup Terminal
    /\ uart_result \in {"none", "ok", "err"}
    /\ Cardinality(uart_config) <= 1
    /\ Cardinality(usart) <= 1
    /\ Cardinality(led) <= 1
    /\ bundles \in Seq([led : SUBSET [pin : Pins], usart : SUBSET
            [peri : Usarts, tx : Pins, dma : {TxDma}, config : FrameworkDefaults]])

\* The peripherals a Hardware value owns through its two handles.
Owned(b) ==
    {h.pin : h \in b.led} \cup UNION {{u.peri, u.tx} : u \in b.usart}

BundleSet == {bundles[i] : i \in 1..Len(bundles)}

\* ------------------------------------------------------------------ claims

\* C1: if the USART2 configuration request is rejected during init, the
\* process is in the panicked state and no Hardware value exists, complete
\* or partial: init never returns after a rejection.
C1_RejectedSerialAborts ==
    uart_result = "err" =>
        /\ pc = "panicked"
        /\ bundles = <<>>
        /\ usart = {}
        /\ led = {}

C1_Witness ==
    /\ uart_result = "err"
    /\ pc = "panicked"
    /\ bundles = <<>>

\* C2: when init has returned, the bundle's led handle is PA5 and PA5 is an
\* output driving LOW at low speed, whatever state the line was in before.
C2_LedInitiallyLow ==
    pc = "returned" =>
        /\ bundles # <<>>
        /\ \A b \in BundleSet : b.led = {[pin |-> "PA5"]}
        /\ pin_hw["PA5"] = [mode |-> "Output", level |-> "Low", speed |-> "Low"]

C2_Witness ==
    /\ pc = "returned"
    /\ pre_pin_hw["PA5"].level = "High"
    /\ pin_hw["PA5"].level = "Low"

\* C3: when init has returned, the bundle's transmitter is USART2 on PA2
\* without DMA, configured with exactly the framework's default Config; it
\* is 115200-8N1 exactly when that default is 115200-8N1.
C3_SerialUsesFrameworkDefault ==
    pc = "returned" =>
        /\ bundles # <<>>
        /\ \A b \in BundleSet :
              /\ b.usart # {}
              /\ \A u \in b.usart :
                    /\ u.peri = "USART2"
                    /\ u.tx = "PA2"
                    /\ u.dma = "NoDma"
                    /\ u.config = framework_default
                    /\ (u.config = Config8N1) <=> (framework_default = Config8N1)
        /\ usart_hw["USART2"] = [enabled |-> TRUE, config |-> {framework_default}]

C3_Witness ==
    /\ pc = "returned"
    /\ framework_default = Config8N1
    /\ \E b \in BundleSet : \E u \in b.usart :
          /\ u.config.baudrate = 115200
          /\ u.config.data_bits = 8
          /\ u.config.parity = "ParityNone"
          /\ u.config.stop_bits = "STOP1"
          /\ u.dma = "NoDma"

\* C4: at most one Hardware value exists; once init has been entered the
\* caller no longer holds the token, no token can be issued again and no
\* further call of init is possible.
C4_AtMostOneBundle ==
    /\ Len(bundles) <= 1
    /\ pc \in InitSteps \cup Terminal =>
          /\ token_taken
          /\ caller_token = {}
          /\ ~ENABLED CallInit
          /\ ~ENABLED IssueToken

C4_Witness ==
    /\ Len(bundles) = 1
    /\ caller_token = {}
    /\ token_taken

C6_MessageBytes ==
    /\ rodata.LED_ON = <<76, 69, 68, 32, 79, 78, 13, 10>>
    /\ rodata.LED_OFF = <<76, 69, 68, 32, 79, 70, 70, 13, 10>>
    /\ Len(rodata.LED_ON) = 8
    /\ Len(rodata.LED_OFF) = 9
    /\ \A m \in {rodata.LED_ON, rodata.LED_OFF} :
          /\ \A i \in 1..Len(m) : m[i] \in 0..127
          /\ m[Len(m) - 1] = 13
          /\ m[Len(m)] = 10
          /\ \A i \in 1..(Len(m) - 2) : m[i] \notin {13, 10}

C6_Witness ==
    /\ pc = "returned"
    /\ \E b \in BundleSet : b.usart # {}
    /\ SubSeq(rodata.LED_ON, 7, 8) = <<13, 10>>
    /\ SubSeq(rodata.LED_OFF, 8, 9) = <<13, 10>>

\* C7: the blink interval constant is 500 in every reachable state: it is
\* 500 at process start and no operation changes it.
C7_BlinkInterval ==
    rodata.LED_BLINK_INTERVAL_MS = 500

C7_Witness ==
    /\ pc \in Terminal
    /\ pin_hw # pre_pin_hw
    /\ rodata.LED_BLINK_INTERVAL_MS = 500

\* C8: PA5 is programmed, and the led handle or a bundle exists, only after
\* the serial configuration has succeeded; when the serial configuration
\* was rejected PA5 is still in its state from before init.
C8_SerialBeforeGpio ==
    /\ (led # {} \/ bundles # <<>> \/ pin_hw["PA5"] # pre_pin_hw["PA5"]) =>
          uart_result = "ok"
    /\ bundles # <<>> => pin_hw["PA5"].mode = "Output"
    /\ uart_result = "err" =>
          /\ pin_hw["PA5"] = pre_pin_hw["PA5"]
          /\ "PA5" \in p

C8_Witness ==
    /\ uart_result = "err"
    /\ pin_hw["PA2"] # pre_pin_hw["PA2"]
    /\ pin_hw["PA5"] = pre_pin_hw["PA5"]

\* C9: every call of init ends, in "returned" or in "panicked", and stays
\* there; only the UartTx::new statement leads to "panicked"; once
\* UartTx::new has succeeded the call ends in "returned".
C9_InitTerminates ==
    /\ (pc \in InitSteps) ~> (pc \in Terminal)
    /\ [][(pc \in Terminal) => (pc' = pc)]_vars
    /\ [][(pc' = "panicked" /\ pc # "panicked") => (pc = "uart_new")]_vars
    /\ (uart_result = "ok") ~> (pc = "returned")
    /\ [](uart_result = "ok" => pc # "panicked")

C9_Witness ==
    /\ pc = "returned"
    /\ uart_result = "ok"
    /\ Len(bundles) = 1

\* C10: init changes the hardware state of USART2, PA2 and PA5 only; when
\* it has returned the bundle owns exactly these three, and the rest of the
\* token is held neither by init nor by the caller.
C10_OnlyInitPeripheralsTouched ==
    /\ \A q \in Pins \ InitPeripherals : pin_hw[q] = pre_pin_hw[q]
    /\ \A u \in Usarts \ InitPeripherals : usart_hw[u] = pre_usart_hw[u]
    /\ pc = "returned" =>
          /\ p = {}
          /\ caller_token = {}
          /\ \A b \in BundleSet : Owned(b) = InitPeripherals

C10_Witness ==
    /\ pc = "returned"
    /\ \E q \in Pins \ InitPeripherals :
          /\ pre_pin_hw[q] # PinReset
          /\ pin_hw[q] = pre_pin_hw[q]
    /\ \E b \in BundleSet : Owned(b) = {"USART2", "PA2", "PA5"}

====
